---- MODULE Spec2Model ----
(***************************************************************************)
(* State-machine model of the SpeciesCard component                        *)
(* (src/app/species/species-card.tsx): the ownership-gated view/edit form, *)
(* its zod schema, and the asynchronous update / delete handlers.          *)
(*                                                                         *)
(* Encoding.  A string is a tuple of one-character strings.  A nullable    *)
(* value is a tuple of length 0 (null) or 1 (the value).  A number is held *)
(* in half units (2 is the number 1, 3 is 1.5) so that z.number().int()    *)
(* has something to reject.                                                *)
(***************************************************************************)
EXTENDS Integers, Sequences, FiniteSets, TLC

VARIABLES open, openDelete, isEditing, values, errors, species, sessionId,
          mounted, db, inflight, refreshPending, edits,
          nUpdateCalls, nDeleteCalls, nRefresh, nToastOk, nToastErr, last, page

vars == <<open, openDelete, isEditing, values, errors, species, sessionId,
          mounted, db, inflight, refreshPending, edits,
          nUpdateCalls, nDeleteCalls, nRefresh, nToastOk, nToastErr, last, page>>

(* ------------------------------ bounds --------------------------------- *)
\* longest string typed into a text input
MaxLen == 3
\* field changes over the life of a card
MaxEdits == 1
\* DataStore requests issued over the life of a card
MaxRequests == 2
\* largest magnitude, in half units, typed into the number input
MaxPop == 2
\* rows of the profiles table
MaxProfiles == 4

(* ------------------------------ values --------------------------------- *)
None == <<>>

Some(v) == <<v>>

IsNull(o) == Len(o) = 0

Get(o) == o[1]

\* half units per unit of a number
Half == 2

Users == {"u1", "u2"}

Fields == {"scientific_name", "common_name", "kingdom", "total_population", "image", "description"}

Kingdoms == {"Animalia", "Plantae", "Fungi", "Protista", "Archaea", "Bacteria"}

\* the characters a user types: a blank, a letter, and the scheme delimiter
TextChars == {" ", "x"}

UrlChars == {" ", "x", ":"}

RECURSIVE StrsOf(_, _)
StrsOf(chars, n) ==
  IF n = 0 THEN {<<>>}
  ELSE LET shorter == StrsOf(chars, n - 1)
       IN shorter \cup {Append(s, c) : s \in {t \in shorter : Len(t) = n - 1}, c \in chars}

(* --------------------------- String.trim ------------------------------- *)
\* a trim that takes a single blank off the front
TrimStart_One(s) == IF s # <<>> /\ Head(s) = " " THEN Tail(s) ELSE s

RECURSIVE TrimStart(_)
TrimStart(s) ==
  IF s = <<>> THEN s
  ELSE IF Head(s) = " " THEN TrimStart(Tail(s)) ELSE s

RECURSIVE TrimEnd(_)
TrimEnd(s) ==
  IF s = <<>> THEN s
  ELSE IF s[Len(s)] = " " THEN TrimEnd(SubSeq(s, 1, Len(s) - 1)) ELSE s

Trim(s) == TrimEnd(TrimStart(s))

(* ------------------- z.string().url(): new URL(s) ---------------------- *)
\* The URL parser strips leading and trailing blanks, then needs a scheme:
\* a letter, then scheme characters, then ":".  Without a base URL anything
\* else is a failure.  What follows the ":" is an opaque path.
RECURSIVE SchemeState(_)
SchemeState(s) ==
  IF s = <<>> THEN FALSE
  ELSE IF Head(s) = ":" THEN TRUE
  ELSE IF Head(s) = "x" THEN SchemeState(Tail(s))
  ELSE FALSE

IsUrl(s) ==
  LET t == Trim(s)
  IN t # <<>> /\ Head(t) = "x" /\ SchemeState(Tail(t))

(* --------------------------- speciesSchema ----------------------------- *)
\* z.string().trim().min(1)
ScientificNameOk(v) == Len(Trim(v)) >= 1

\* .transform((val) => val?.trim()) applied to the trimmed string
ScientificNameOut(v) == Trim(Trim(v))

\* the transform without its blank-to-null case
NullableTransform_NoNull(o) == IF IsNull(o) THEN None ELSE Some(Trim(Get(o)))

\* (val) => (!val || val.trim() === "" ? null : val.trim())
NullableTransform(o) ==
  IF IsNull(o) \/ Get(o) = <<>> \/ Trim(Get(o)) = <<>> THEN None ELSE Some(Trim(Get(o)))

\* z.enum([...])
KingdomOk(k) == k \in Kingdoms

\* the number check with .positive().min(1) left out
PopulationOk_NoMin(o) == IsNull(o) \/ Get(o) % Half = 0

\* z.number().int().positive().min(1).nullable()
PopulationOk(o) ==
  IsNull(o) \/ (Get(o) % Half = 0 /\ Get(o) > 0 /\ Get(o) >= 1 * Half)

\* z.string().url().nullable(): the checks run before the transform
ImageOk(o) == IsNull(o) \/ IsUrl(Get(o))

FieldOk(f, v) ==
  CASE f = "scientific_name" -> ScientificNameOk(v)
    [] f = "kingdom" -> KingdomOk(v)
    [] f = "total_population" -> PopulationOk(v)
    [] f = "image" -> ImageOk(v)
    [] OTHER -> TRUE

FieldOut(f, v) ==
  CASE f = "scientific_name" -> ScientificNameOut(v)
    [] f = "kingdom" -> v
    [] f = "total_population" -> v
    [] OTHER -> NullableTransform(v)

\* safeParse of the whole draft: the failing fields and the transformed data
SchemaErrors(d) == {f \in Fields : ~FieldOk(f, d[f])}

SchemaData(d) == [f \in Fields |-> FieldOut(f, d[f])]

(* ------------------------- component helpers --------------------------- *)
\* const defaultValues = { scientific_name: species.scientific_name, ... }
defaultValues == [f \in Fields |-> species[f]]

\* species.author == sessionId
IsOwner == species.author = sessionId

\* the delete confirmation is a modal dialog: while it is open the controls
\* of the detail dialog behind it cannot be operated
ModalBlocks == openDelete

\* the detail dialog's content is rendered while open, and operable unless
\* the nested delete dialog covers it
DetailReachable == mounted /\ open /\ ~ModalBlocks

\* <Button type="submit">Update Species</Button> and the Cancel button
SubmitShown == IsOwner /\ isEditing

\* the Edit button rendered without the author check
EditShown_AnyViewer == ~isEditing

\* <Button onClick={startEditing}>Edit Species</Button>
EditShown == IsOwner /\ ~isEditing

\* the delete Dialog rendered in the editing branch as well
DeleteShown_WhileEditing == IsOwner

\* the delete Dialog (trigger and content) sits in the same branch
DeleteShown == IsOwner /\ ~isEditing

\* a reset that keeps what was typed
formReset_KeepDraft(v) == values' = values /\ errors' = {}

\* form.reset(v): the draft becomes v and the field errors are cleared
formReset(v) == values' = v /\ errors' = {}

\* the result's error never looked at
HasError_Ignored(ok) == FALSE

\* if (error) on the update's result
HasError(ok) == ~ok

\* everything a user can put into a field through its control, up to the
\* bounds: the text inputs give strings, the number input gives
\* +event.target.value, the Select gives kingdoms.parse(value)
Inputs(f) ==
  CASE f = "scientific_name" -> StrsOf(TextChars, MaxLen)
    [] f = "kingdom" -> Kingdoms
    [] f = "total_population" -> {Some(n) : n \in (0 - MaxPop)..MaxPop}
    [] f = "image" -> {Some(s) : s \in StrsOf(UrlChars, MaxLen)}
    [] OTHER -> {Some(s) : s \in StrsOf(TextChars, MaxLen)}

\* the inputs tried while the whole card is explored: for each field a value
\* the schema rejects or blanks, and one it accepts and changes
Samples(f) ==
  CASE f = "scientific_name" -> {<<>>, <<" ", "x", "x", " ">>}
    [] f = "kingdom" -> {"Plantae", "Bacteria"}
    [] f = "total_population" -> {Some(0 - Half), Some(Half), Some(Half + 1)}
    [] f = "image" -> {Some(<<>>), Some(<<"x">>), Some(<<" ", "x", ":">>)}
    [] OTHER -> {Some(<<" ">>), Some(<<"x", " ">>)}

\* an update that leaves the description out of the object it sends
UpdatePatch_Partial(data) == [f \in Fields \ {"description"} |-> data[f]]

\* .update({ scientific_name: data.scientific_name, ... }): the object sent
UpdatePatch(data) == [f \in Fields |-> data[f]]

Event(name, ok) == [ev |-> name, ok |-> ok]

\* the user-list page when no request for it is being served
PageIdle ==
  [pc |-> "idle", session |-> None, table |-> {}, queried |-> FALSE,
   profiles |-> None, cards |-> <<>>, redirect |-> None]

\* rows the list page can hand to the card
InitialRows ==
  {[id |-> 7, author |-> "u1", scientific_name |-> <<"x">>, common_name |-> None,
    kingdom |-> k, total_population |-> None, image |-> None, description |-> None]
   : k \in {"Animalia", "Chromista"}}

(* ------------------------------- Init ---------------------------------- *)
Init ==
  /\ species \in InitialRows
  /\ sessionId \in Users
  /\ open = FALSE
  /\ openDelete = FALSE
  /\ isEditing = FALSE
  /\ values = [f \in Fields |-> species[f]]
  /\ errors = {}
  /\ mounted = TRUE
  /\ db = [exists |-> TRUE, row |-> species]
  /\ inflight = {}
  /\ refreshPending = FALSE
  /\ edits = 0
  /\ nUpdateCalls = 0
  /\ nDeleteCalls = 0
  /\ nRefresh = 0
  /\ nToastOk = 0
  /\ nToastErr = 0
  /\ last = Event("init", TRUE)
  /\ page = PageIdle

(* ------------------------------ actions -------------------------------- *)
\* an onOpenChange that also abandons the edit when the dialog closes
SetOpen_CancelsOnClose(b) ==
  /\ mounted
  /\ ~ModalBlocks
  /\ open # b
  /\ open' = b
  /\ isEditing' = (b /\ isEditing)
  /\ values' = IF b THEN values ELSE defaultValues
  /\ last' = Event(IF b THEN "open" ELSE "close", TRUE)
  /\ UNCHANGED <<openDelete, errors, species, sessionId, mounted, db,
                 inflight, refreshPending, edits, nUpdateCalls, nDeleteCalls, nRefresh,
                 nToastOk, nToastErr>>
  /\ UNCHANGED page

\* Dialog open={open} onOpenChange={setOpen}
SetOpen(b) ==
  /\ mounted
  /\ ~ModalBlocks
  /\ open # b
  /\ open' = b
  /\ last' = Event(IF b THEN "open" ELSE "close", TRUE)
  /\ UNCHANGED <<openDelete, isEditing, values, errors, species, sessionId, mounted, db,
                 inflight, refreshPending, edits, nUpdateCalls, nDeleteCalls, nRefresh,
                 nToastOk, nToastErr>>
  /\ UNCHANGED page

startEditing ==
  /\ DetailReachable
  /\ EditShown
  /\ isEditing' = TRUE
  /\ last' = Event("beginEdit", TRUE)
  /\ UNCHANGED <<open, openDelete, values, errors, species, sessionId, mounted, db,
                 inflight, refreshPending, edits, nUpdateCalls, nDeleteCalls, nRefresh,
                 nToastOk, nToastErr>>
  /\ UNCHANGED page

handleCancel ==
  /\ DetailReachable
  /\ SubmitShown
  /\ formReset(defaultValues)
  /\ isEditing' = FALSE
  /\ last' = Event("cancelEdit", TRUE)
  /\ UNCHANGED <<open, openDelete, species, sessionId, mounted, db,
                 inflight, refreshPending, edits, nUpdateCalls, nDeleteCalls, nRefresh,
                 nToastOk, nToastErr>>
  /\ UNCHANGED page

\* field.onChange on an input that is not readOnly; mode: "onChange"
\* re-validates the changed field
ChangeField(f, v) ==
  /\ DetailReachable
  /\ isEditing
  /\ edits < MaxEdits
  /\ values[f] # v
  /\ values' = [values EXCEPT ![f] = v]
  /\ errors' = IF FieldOk(f, v) THEN errors \ {f} ELSE errors \cup {f}
  /\ edits' = edits + 1
  /\ last' = Event("change", TRUE)
  /\ UNCHANGED <<open, openDelete, isEditing, species, sessionId, mounted, db,
                 inflight, refreshPending, nUpdateCalls, nDeleteCalls, nRefresh,
                 nToastOk, nToastErr>>
  /\ UNCHANGED page

\* form.handleSubmit(onSubmit): resolve the draft, and call onSubmit up to
\* its await only when the schema accepts it
handleSubmit ==
  /\ DetailReachable
  /\ SubmitShown
  /\ IF SchemaErrors(values) # {}
       THEN /\ errors' = SchemaErrors(values)
            /\ last' = Event("submit", FALSE)
            /\ UNCHANGED <<inflight, nUpdateCalls>>
       ELSE /\ nUpdateCalls + nDeleteCalls < MaxRequests
            /\ errors' = {}
            /\ LET req == [id |-> nUpdateCalls + nDeleteCalls + 1, op |-> "update",
                           target |-> species.id,
                           patch |-> UpdatePatch(SchemaData(values)),
                           data |-> SchemaData(values), raw |-> values]
               IN /\ inflight' = inflight \cup {req}
                  /\ last' = Event("submit", TRUE)
            /\ nUpdateCalls' = nUpdateCalls + 1
  /\ UNCHANGED <<open, openDelete, isEditing, values, species, sessionId, mounted, db,
                 refreshPending, edits, nDeleteCalls, nRefresh, nToastOk, nToastErr>>
  /\ UNCHANGED page

\* the update's response arrives (the store has applied the patch when it
\* reports no error), and the rest of onSubmit runs
onSubmit(req, ok) ==
  /\ req \in inflight
  /\ req.op = "update"
  /\ inflight' = inflight \ {req}
  /\ db' = IF ok /\ db.exists
             THEN [db EXCEPT !.row = [k \in DOMAIN db.row |->
                                        IF k \in DOMAIN req.patch THEN req.patch[k]
                                                                  ELSE db.row[k]]]
             ELSE db
  /\ last' = Event("updated", ok)
  /\ IF HasError(ok)
       THEN /\ nToastErr' = nToastErr + 1
            /\ UNCHANGED <<isEditing, values, errors, refreshPending, nRefresh, nToastOk>>
       ELSE /\ isEditing' = FALSE
            /\ formReset(req.data)
            /\ refreshPending' = TRUE
            /\ nRefresh' = nRefresh + 1
            /\ nToastOk' = nToastOk + 1
            /\ UNCHANGED nToastErr
  /\ UNCHANGED <<open, openDelete, species, sessionId, mounted, edits, nUpdateCalls, nDeleteCalls>>
  /\ UNCHANGED page

\* Dialog open={openDelete} onOpenChange={setOpenDelete}: the trigger
SetOpenDelete ==
  /\ DetailReachable
  /\ DeleteShown
  /\ openDelete' = TRUE
  /\ last' = Event("beginDelete", TRUE)
  /\ UNCHANGED <<open, isEditing, values, errors, species, sessionId, mounted, db,
                 inflight, refreshPending, edits, nUpdateCalls, nDeleteCalls, nRefresh,
                 nToastOk, nToastErr>>
  /\ UNCHANGED page

\* "No, cancel", or dismissing the delete dialog
handleDeleteCancel ==
  /\ mounted
  /\ openDelete
  /\ openDelete' = FALSE
  /\ last' = Event("cancelDelete", TRUE)
  /\ UNCHANGED <<open, isEditing, values, errors, species, sessionId, mounted, db,
                 inflight, refreshPending, edits, nUpdateCalls, nDeleteCalls, nRefresh,
                 nToastOk, nToastErr>>
  /\ UNCHANGED page

\* "Yes, delete": startDeleting up to its await
startDeleting ==
  /\ mounted
  /\ openDelete
  /\ nUpdateCalls + nDeleteCalls < MaxRequests
  /\ LET req == [id |-> nUpdateCalls + nDeleteCalls + 1, op |-> "delete",
                 target |-> species.id, patch |-> <<>>, data |-> <<>>, raw |-> <<>>]
     IN /\ inflight' = inflight \cup {req}
        /\ last' = Event("confirmDelete", TRUE)
  /\ nDeleteCalls' = nDeleteCalls + 1
  /\ UNCHANGED <<open, openDelete, isEditing, values, errors, species, sessionId, mounted, db,
                 refreshPending, edits, nUpdateCalls, nRefresh, nToastOk, nToastErr>>
  /\ UNCHANGED page

\* startDeleting's continuation had it branched on the result's error
deleteDone_ChecksError(req, ok) ==
  /\ req \in inflight
  /\ req.op = "delete"
  /\ inflight' = inflight \ {req}
  /\ db' = IF ok THEN [db EXCEPT !.exists = FALSE] ELSE db
  /\ last' = Event("deleted", ok)
  /\ IF ok
       THEN /\ refreshPending' = TRUE
            /\ nRefresh' = nRefresh + 1
            /\ nToastOk' = nToastOk + 1
            /\ UNCHANGED nToastErr
       ELSE /\ nToastErr' = nToastErr + 1
            /\ UNCHANGED <<refreshPending, nRefresh, nToastOk>>
  /\ UNCHANGED <<open, openDelete, isEditing, values, errors, species, sessionId, mounted,
                 edits, nUpdateCalls, nDeleteCalls>>
  /\ UNCHANGED page

\* the delete's response arrives (the row is gone when the store reports no
\* error), and the rest of startDeleting runs
deleteDone(req, ok) ==
  /\ req \in inflight
  /\ req.op = "delete"
  /\ inflight' = inflight \ {req}
  /\ db' = IF ok THEN [db EXCEPT !.exists = FALSE] ELSE db
  /\ refreshPending' = TRUE
  /\ nRefresh' = nRefresh + 1
  /\ nToastOk' = nToastOk + 1
  /\ last' = Event("deleted", ok)
  /\ UNCHANGED <<open, openDelete, isEditing, values, errors, species, sessionId, mounted,
                 edits, nUpdateCalls, nDeleteCalls, nToastErr>>
  /\ UNCHANGED page

\* router.refresh() lands: the list page re-fetches and re-renders the card
\* with the stored row, or without the card when the row is gone
propsRefreshed ==
  /\ mounted
  /\ refreshPending
  /\ refreshPending' = FALSE
  /\ IF db.exists
       THEN species' = db.row /\ UNCHANGED mounted
       ELSE mounted' = FALSE /\ UNCHANGED species
  /\ last' = Event("refreshed", TRUE)
  /\ UNCHANGED <<open, openDelete, isEditing, values, errors, sessionId, db,
                 inflight, edits, nUpdateCalls, nDeleteCalls, nRefresh, nToastOk, nToastErr>>
  /\ UNCHANGED page

Next ==
  \/ \E b \in BOOLEAN : SetOpen(b)
  \/ startEditing
  \/ handleCancel
  \/ \E f \in Fields : \E v \in Samples(f) : ChangeField(f, v)
  \/ handleSubmit
  \/ \E req \in inflight : \E ok \in BOOLEAN : onSubmit(req, ok)
  \/ SetOpenDelete
  \/ handleDeleteCancel
  \/ startDeleting
  \/ \E req \in inflight : \E ok \in BOOLEAN : deleteDone(req, ok)
  \/ propsRefreshed

Spec == Init /\ [][Next]_vars

(* ------------------- the schema on every typed value ------------------- *)
\* an owner's card in edit mode, one field of the draft holding any value its
\* control can give
InitTyped ==
  /\ species \in InitialRows
  /\ sessionId = species.author
  /\ open = TRUE
  /\ openDelete = FALSE
  /\ isEditing = TRUE
  /\ \E f \in Fields : \E v \in Inputs(f) :
       /\ values = [defaultValues EXCEPT ![f] = v]
       /\ errors = IF FieldOk(f, v) THEN {} ELSE {f}
  /\ mounted = TRUE
  /\ db = [exists |-> TRUE, row |-> species]
  /\ inflight = {}
  /\ refreshPending = FALSE
  /\ edits = 1
  /\ nUpdateCalls = 0
  /\ nDeleteCalls = 0
  /\ nRefresh = 0
  /\ nToastOk = 0
  /\ nToastErr = 0
  /\ last = Event("change", TRUE)
  /\ page = PageIdle

NextTyped ==
  \/ startEditing
  \/ handleSubmit
  \/ \E req \in inflight : \E ok \in BOOLEAN : onSubmit(req, ok)

SpecTyped == InitTyped /\ [][NextTyped]_vars

(* --------------------------- the user list ----------------------------- *)
cardVars == <<open, openDelete, isEditing, values, errors, species, sessionId,
              mounted, db, inflight, refreshPending, edits,
              nUpdateCalls, nDeleteCalls, nRefresh, nToastOk, nToastErr, last>>

\* .order("id", { ascending: false })
RECURSIVE OrderDesc(_)
OrderDesc(ids) ==
  IF ids = {} THEN <<>>
  ELSE LET top == CHOOSE i \in ids : \A j \in ids : j <= i
       IN <<top>> \o OrderDesc(ids \ {top})

\* a request for the page arrives, with or without a session cookie, the
\* profiles table holding any rows; UserList runs up to its first await
InitUserList ==
  /\ species \in {r \in InitialRows : r.kingdom \in Kingdoms}
  /\ sessionId = species.author
  /\ open = FALSE
  /\ openDelete = FALSE
  /\ isEditing = FALSE
  /\ values = [f \in Fields |-> species[f]]
  /\ errors = {}
  /\ mounted = TRUE
  /\ db = [exists |-> TRUE, row |-> species]
  /\ inflight = {}
  /\ refreshPending = FALSE
  /\ edits = 0
  /\ nUpdateCalls = 0
  /\ nDeleteCalls = 0
  /\ nRefresh = 0
  /\ nToastOk = 0
  /\ nToastErr = 0
  /\ last = Event("init", TRUE)
  /\ \E cookie \in {None} \cup {Some(u) : u \in Users} : \E rows \in SUBSET (1..MaxProfiles) :
       page = [pc |-> "getSession", session |-> cookie, table |-> rows, queried |-> FALSE,
               profiles |-> None, cards |-> <<>>, redirect |-> None]

\* a redirect that returns instead of throwing, so the function carries on
sessionResolved_FallsThrough ==
  /\ page.pc = "getSession"
  /\ page' = [page EXCEPT !.pc = "select", !.queried = TRUE,
                          !.redirect = IF IsNull(page.session) THEN Some("/") ELSE None]
  /\ UNCHANGED cardVars

\* getSession() resolves: without a session redirect("/") throws and the
\* function ends there; with one the profiles query is sent
sessionResolved ==
  /\ page.pc = "getSession"
  /\ IF IsNull(page.session)
       THEN page' = [page EXCEPT !.pc = "redirected", !.redirect = Some("/")]
       ELSE page' = [page EXCEPT !.pc = "select", !.queried = TRUE]
  /\ UNCHANGED cardVars

\* the query resolves with the rows, or with data null on an error, and
\* profiles?.map renders one ProfileCard per row
profilesResolved(ok) ==
  /\ page.pc = "select"
  /\ LET data == IF ok THEN Some(OrderDesc(page.table)) ELSE None
     IN page' = [page EXCEPT !.pc = "rendered", !.profiles = data,
                             !.cards = IF IsNull(data) THEN <<>> ELSE Get(data)]
  /\ UNCHANGED cardVars

NextUserList ==
  \/ sessionResolved
  \/ \E ok \in BOOLEAN : profilesResolved(ok)

SpecUserList == InitUserList /\ [][NextUserList]_vars

(* ============================== claims ================================= *)
Committed == [f \in Fields |-> db.row[f]]

IsBlank(s) == \A i \in 1..Len(s) : s[i] = " "

\* t is s with blanks, and only blanks, taken off both ends
IsStripOf(t, s) ==
  /\ t = <<>> \/ (t[1] # " " /\ t[Len(t)] # " ")
  /\ \E i \in 0..Len(s) :
       /\ i + Len(t) <= Len(s)
       /\ SubSeq(s, i + 1, i + Len(t)) = t
       /\ \A k \in 1..Len(s) : (k <= i \/ k > i + Len(t)) => s[k] = " "

\* out is the nullable text field raw after normalization
IsNullableNormalOf(out, raw) ==
  IF IsNull(raw) \/ IsBlank(Get(raw))
    THEN IsNull(out)
    ELSE ~IsNull(out) /\ IsStripOf(Get(out), Get(raw))

\* data is the draft raw with every field normalized as the field table says
IsNormalOf(data, raw) ==
  /\ data.scientific_name # <<>>
  /\ IsStripOf(data.scientific_name, raw.scientific_name)
  /\ \A f \in {"common_name", "image", "description"} : IsNullableNormalOf(data[f], raw[f])
  /\ data.kingdom = raw.kingdom
  /\ data.total_population = raw.total_population

\* the requests issued, and the responses handled, by a step
Issued == inflight' \ inflight

Handled == inflight \ inflight'

\* C1: a viewer who is not the record's owner never gets the card into edit
\* mode or opens the delete confirmation, and the card never issues an update
\* or a delete for them.
C1_NonOwnerNeverMutates ==
  sessionId # species.author =>
    (~isEditing /\ ~openDelete /\ nUpdateCalls = 0 /\ nDeleteCalls = 0 /\ inflight = {})

\* a non-owner has opened the detail dialog and closed it again
C1_Witness ==
  sessionId # species.author /\ last.ev = "close" /\ ~open /\ ~isEditing /\ ~openDelete

\* the field constraints a draft can break, in the words of the field table
C2_Violates(d) ==
  \/ IsBlank(d.scientific_name)
  \/ ~IsNull(d.total_population)
       /\ ~(\E n \in 1..(MaxPop + 1) : Get(d.total_population) = n * Half)
  \/ d.kingdom \notin Kingdoms
  \/ ~IsNull(d.image) /\ ~IsUrl(Get(d.image))

\* C2: submitting a draft that violates a field constraint (blank primary
\* name, population present and not an integer >= 1, category outside the
\* fixed set, image present and not a well-formed URL) issues no update,
\* surfaces a validation error and leaves the card in edit mode.
C2_InvalidDraftNotSent ==
  [][(last'.ev = "submit" /\ C2_Violates(values)) =>
       (Issued = {} /\ nUpdateCalls' = nUpdateCalls /\ errors' # {} /\ isEditing')]_vars

\* a population of -1 was submitted: it is flagged, nothing was sent
C2_Witness ==
  /\ last = Event("submit", FALSE)
  /\ values.total_population = Some(0 - Half)
  /\ "total_population" \in errors
  /\ isEditing
  /\ nUpdateCalls = 0

\* C3: for each nullable text field (common name, image, description) a
\* submitted value that is empty or all blanks passes validation and is sent
\* as null; any other value is sent with the blanks taken off both ends.
C3_BlankNullableSentAsNull ==
  [][last'.ev = "submit" =>
       \A f \in {"common_name", "image", "description"} :
         /\ (~IsNull(values[f]) /\ IsBlank(Get(values[f]))) => f \notin errors'
         /\ \A req \in Issued : IsNullableNormalOf(req.data[f], values[f])]_vars

\* C4: cancelEdit turns edit mode off and resets every draft field to the
\* last committed record values, also after an earlier successful submit.
C4_CancelRestoresCommitted ==
  [][last'.ev = "cancelEdit" => (~isEditing' /\ values' = Committed)]_vars

\* C5: when the DataStore acknowledges an update, edit mode ends, the draft
\* and the committed record become the normalized form of the submitted draft,
\* and the step makes exactly one refresh and one success notification.
C5_UpdateSuccess ==
  [][(last'.ev = "updated" /\ last'.ok) =>
       \E req \in Handled :
         /\ Handled = {req}
         /\ req.op = "update"
         /\ IsNormalOf(req.data, req.raw)
         /\ ~isEditing'
         /\ values' = req.data
         /\ db.exists => Committed' = req.data
         /\ nRefresh' = nRefresh + 1
         /\ nToastOk' = nToastOk + 1
         /\ nToastErr' = nToastErr]_vars

\* " xx " was submitted and acknowledged: the draft and the record hold "xx"
C5_Witness ==
  /\ last = Event("updated", TRUE)
  /\ values.scientific_name = <<"x", "x">>
  /\ Committed = values
  /\ ~isEditing
  /\ nRefresh = 1
  /\ nToastOk = 1

\* C6: when the DataStore reports a failure for an update, the step emits
\* exactly one error notification and nothing else: edit mode and the draft
\* are as they were, no refresh and no success notification.
C6_UpdateFailure ==
  [][(last'.ev = "updated" /\ ~last'.ok) =>
       /\ nToastErr' = nToastErr + 1
       /\ isEditing' = isEditing
       /\ values' = values
       /\ db' = db
       /\ nRefresh' = nRefresh
       /\ nToastOk' = nToastOk]_vars

\* a changed draft was submitted and refused: still editing, draft kept
C6_Witness ==
  /\ last = Event("updated", FALSE)
  /\ isEditing
  /\ values # defaultValues
  /\ Committed = defaultValues
  /\ nToastErr = 1
  /\ nRefresh = 0
  /\ nToastOk = 0

C8_AtMostOneInFlight == Cardinality(inflight) <= 1

\* C9: a refresh is issued only by a step that handles a successful response
\* of the DataStore.
C9_RefreshOnlyAfterSuccess ==
  [][nRefresh' # nRefresh => (last'.ev \in {"updated", "deleted"} /\ last'.ok)]_vars

\* C10: every failure the DataStore returns, for an update or a delete, gives
\* an error notification and no success notification.
C10_StoreErrorNotified ==
  [][(last'.ev \in {"updated", "deleted"} /\ ~last'.ok) =>
       (nToastErr' = nToastErr + 1 /\ nToastOk' = nToastOk)]_vars

\* C11: every update is addressed to the record's id and its patch holds
\* exactly the six editable fields; no step changes the id or the author of
\* the stored record or of the card's record.
C11_PatchIsSixFieldsOfRecord ==
  [][/\ \A req \in Issued :
          req.op = "update" =>
            (req.target = species.id /\ req.target = db.row.id /\ DOMAIN req.patch = Fields)
     /\ db'.row.id = db.row.id
     /\ db'.row.author = db.row.author
     /\ species'.id = species.id
     /\ species'.author = species.author]_vars

\* an update went out and was applied: the patch had the six fields, the
\* stored record changed, its id and author did not
C11_Witness ==
  /\ last = Event("updated", TRUE)
  /\ nUpdateCalls = 1
  /\ Committed # defaultValues
  /\ db.row.id = species.id
  /\ db.row.author = species.author

\* a string with something in it and no blank at either end
IsTrimmedText(s) == s # <<>> /\ s[1] # " " /\ s[Len(s)] # " "

\* C12: every patch on its way to the DataStore meets the field constraints:
\* the primary name is non-empty with no blank at either end, the kingdom is
\* one of the six, the population is null or an integer >= 1, and each nullable
\* text field is null or a non-empty string with no blank at either end.
C12_SentPatchMeetsConstraints ==
  \A req \in inflight :
    req.op = "update" =>
      /\ IsTrimmedText(req.patch.scientific_name)
      /\ req.patch.kingdom \in {"Animalia", "Plantae", "Fungi", "Protista", "Archaea", "Bacteria"}
      /\ \/ IsNull(req.patch.total_population)
         \/ \E n \in 1..(MaxPop + 1) : Get(req.patch.total_population) = n * Half
      /\ \A f \in {"common_name", "image", "description"} :
           IsNull(req.patch[f]) \/ IsTrimmedText(Get(req.patch[f]))

\* a draft whose common name was all blanks is on its way, with null for it
C12_Witness ==
  \E req \in inflight :
    /\ req.op = "update"
    /\ ~IsNull(req.raw.common_name)
    /\ Get(req.raw.common_name) = <<" ", " ">>
    /\ IsNull(req.patch.common_name)

\* C13: edit mode and the delete confirmation are never both on; beginEdit is
\* taken only from Viewing (not editing, confirmation closed) and beginDelete
\* only when not editing.
C13_StatesExclusive ==
  [][/\ ~(isEditing /\ openDelete)
     /\ ~(isEditing' /\ openDelete')
     /\ last'.ev = "beginEdit" => (~isEditing /\ ~openDelete /\ isEditing' /\ ~openDelete')
     /\ last'.ev = "beginDelete" => (~isEditing /\ ~openDelete /\ openDelete' /\ ~isEditing')]_vars

\* an owner who edited earlier has the delete confirmation open, not editing
C13_Witness ==
  /\ last = Event("beginDelete", TRUE)
  /\ openDelete
  /\ ~isEditing
  /\ edits = 1

\* C14: opening and closing the detail dialog change its visibility and
\* nothing else: edit mode, the delete confirmation and the draft stay, and no
\* DataStore, Notifier or Navigator call is made; so a dialog closed and
\* reopened during an edit shows the same uncommitted draft, still editable.
C14_OpenCloseOnlyVisibility ==
  [][last'.ev \in {"open", "close"} =>
       /\ open' = (last'.ev = "open")
       /\ open' # open
       /\ isEditing' = isEditing
       /\ openDelete' = openDelete
       /\ values' = values
       /\ errors' = errors
       /\ inflight' = inflight
       /\ db' = db
       /\ nUpdateCalls' = nUpdateCalls
       /\ nDeleteCalls' = nDeleteCalls
       /\ nRefresh' = nRefresh
       /\ nToastOk' = nToastOk
       /\ nToastErr' = nToastErr]_vars

\* reopened during an edit (Edit needs the dialog open, so it was closed after
\* the edit began): still editing, the changed draft still there
C14_Witness ==
  /\ last = Event("open", TRUE)
  /\ open
  /\ isEditing
  /\ edits = 1
  /\ values # defaultValues
  /\ nUpdateCalls = 0

\* C15: normalization is idempotent: the data of every submission passes the
\* schema again and comes out unchanged; so a draft resubmitted as it stands
\* after an acknowledged submit passes validation and sends the same patch.
C15_NormalizationIdempotent ==
  [][last'.ev = "submit" =>
       /\ \A req \in Issued :
            /\ SchemaErrors(req.data) = {}
            /\ SchemaData(req.data) = req.data
            /\ UpdatePatch(SchemaData(req.data)) = req.patch
       /\ (nToastOk >= 1 /\ nDeleteCalls = 0 /\ values = Committed) =>
            (last'.ok /\ errors' = {} /\ \E req \in Issued : req.patch = Committed)]_vars

\* a draft was submitted, acknowledged and submitted again unchanged: the
\* second patch is the record the first one left
C15_Witness ==
  /\ last = Event("submit", TRUE)
  /\ nUpdateCalls = 2
  /\ nToastOk = 1
  /\ Committed # defaultValues
  /\ Committed.common_name = Some(<<"x">>)
  /\ \E req \in inflight : req.raw = Committed /\ req.patch = Committed

\* C16: the user list is protected: a request without a session is
\* redirected to "/", the profiles table is never queried for it and no
\* profile card is rendered; the query and the cards happen only with a session,
\* and then the cards are the table's rows.
C16_UserListProtected ==
  /\ (IsNull(page.session) /\ page.pc \notin {"idle", "getSession"}) =>
       (page.pc = "redirected" /\ page.redirect = Some("/"))
  /\ IsNull(page.session) => (~page.queried /\ IsNull(page.profiles) /\ page.cards = <<>>)
  /\ (page.queried \/ page.cards # <<>>) => (~IsNull(page.session) /\ IsNull(page.redirect))
  /\ (page.pc = "rendered" /\ ~IsNull(page.profiles)) =>
       {page.cards[i] : i \in 1..Len(page.cards)} = page.table

\* a request without a session was redirected while the table held rows
C16_Witness ==
  /\ page.pc = "redirected"
  /\ IsNull(page.session)
  /\ page.table # {}
  /\ page.redirect = Some("/")
  /\ ~page.queried
  /\ page.cards = <<>>

====
